---- MODULE Spec2Model ----
(***************************************************************************)
(* Model of the Honeycomb app for Flows: the installation lifecycle        *)
(* (onSync / onDrain) over the app key-value store and the upstream        *)
(* recipients API, the inbound webhook handler, and the Run Query polling  *)
(* loop.  Handlers are split at their await points, so that concurrent     *)
(* invocations interleave exactly where the runtime can interleave them.   *)
(***************************************************************************)
EXTENDS Integers, Sequences, FiniteSets, Bags, TLC

(* ------------------------------ bounds --------------------------------- *)

\* concurrent handler invocations of the lifecycle callbacks
NumProcs == 2
\* secrets generateWebhookSecret can hand out in one run
MaxSecrets == 2

(* ------------------------------ values --------------------------------- *)

\* JavaScript undefined: a key-value miss, a missing query parameter
Undefined == 0
\* the empty string, falsy like undefined
EmptyString == -1

Falsy(v) == v = Undefined \/ v = EmptyString

KEY_RECIPIENT == "webhook_recipient_id"
KEY_SECRET == "webhook_secret"
Keys == {KEY_RECIPIENT, KEY_SECRET}

\* HTTP statuses the upstream service answers with
StatusOK == 200
StatusNotFound == 404
StatusServerError == 500

\* response.statusText: the reason phrase that goes with a status
StatusText(st) ==
    CASE st = StatusOK -> "OK"
      [] st = StatusNotFound -> "Not Found"
      [] st = StatusServerError -> "Internal Server Error"
      [] OTHER -> ""

\* what fetch() gives back: no response at all, or a status, its reason phrase
\* and a body text (body: Undefined for an empty text, else the value the text
\* stands for; parses: whether JSON.parse accepts the text)
NetFail == [received |-> FALSE, status |-> 0, statusText |-> "", body |-> Undefined,
            parses |-> TRUE]
Response(st, b) == [received |-> TRUE, status |-> st, statusText |-> StatusText(st),
                    body |-> b, parses |-> TRUE]

\* a response whose non-empty body text b is not JSON
Garbled(st, b) == [Response(st, b) EXCEPT !.parses = FALSE]

ResponseOk(resp) == resp.status >= 200 /\ resp.status <= 299

\* error messages, kept structured
Msg(kind, method, endpoint, rid, status) ==
    [kind |-> kind, method |-> method, endpoint |-> endpoint, rid |-> rid, status |-> status]
NoMsg == Msg("none", "", "", 0, 0)

(* --------------------------- honeycombFetch ---------------------------- *)

\* what a call gives its caller: the value returned, or the error thrown with
\* the fields it carries; requests counts the calls of fetch() it made
Outcome(ok, apiError, statusCode, statusText, responseBody, value, message, requests) ==
    [ok |-> ok, apiError |-> apiError, statusCode |-> statusCode, statusText |-> statusText,
     responseBody |-> responseBody, value |-> value, message |-> message,
     requests |-> requests]

\* a client that sends the request a second time when no response came back
HoneycombFetchRetrying(method, endpoint, rid, resp) ==
    IF ~resp.received
    THEN Outcome(FALSE, FALSE, 0, "", Undefined, Undefined,
                 Msg("request failed", method, endpoint, rid, 0), 2)
    ELSE IF ~ResponseOk(resp)
    THEN Outcome(FALSE, TRUE, resp.status, resp.statusText, resp.body, Undefined,
                 Msg("api error", method, endpoint, rid, resp.status), 1)
    ELSE IF ~resp.parses
    THEN Outcome(FALSE, FALSE, 0, "", Undefined, Undefined,
                 Msg("syntax error", "", "", 0, 0), 1)
    ELSE Outcome(TRUE, FALSE, 0, "", Undefined, resp.body, NoMsg, 1)

\* one fetch(), then: a transport error, a HoneycombApiError, undefined (empty
\* body), the parsed JSON, or the SyntaxError of JSON.parse (a text that does not
\* parse is not empty, so the emptiness test has let it through)
HoneycombFetch(method, endpoint, rid, resp) ==
    IF ~resp.received
    THEN Outcome(FALSE, FALSE, 0, "", Undefined, Undefined,
                 Msg("request failed", method, endpoint, rid, 0), 1)
    ELSE IF ~ResponseOk(resp)
    THEN Outcome(FALSE, TRUE, resp.status, resp.statusText, resp.body, Undefined,
                 Msg("api error", method, endpoint, rid, resp.status), 1)
    ELSE IF ~resp.parses
    THEN Outcome(FALSE, FALSE, 0, "", Undefined, Undefined,
                 Msg("syntax error", "", "", 0, 0), 1)
    ELSE Outcome(TRUE, FALSE, 0, "", Undefined, resp.body, NoMsg, 1)

\* no error raised
NoError == Outcome(TRUE, FALSE, 0, "", Undefined, Undefined, NoMsg, 0)

\* the error a rejected key-value operation raises
KvError(op, key) ==
    Outcome(FALSE, FALSE, 0, "", Undefined, Undefined, Msg("kv error", op, key, 0, 0), 0)

(* ------------------------------- state --------------------------------- *)

VARIABLES
    kv,          \* the app key-value store: key -> value, Undefined when absent
    recipients,  \* upstream: recipients[i] is the recipient with id i
    nextSecret,  \* secrets handed out so far
    inflight,    \* the lifecycle invocations in flight (a bag): position and locals
    last,        \* what the handler that has just finished did and returned
    clock,       \* Date.now(), in milliseconds
    poll         \* the Run Query invocation: position, locals, what it has done

vars == <<kv, recipients, nextSecret, inflight, last, clock, poll>>
lifecycleVars == <<kv, recipients, nextSecret, inflight, last>>
pollVars == <<clock, poll>>

\* an invocation as it starts; the counters record what it has done so far
NewInvocation ==
    [pc |-> "start", webhookSecret |-> Undefined, recipientId |-> Undefined,
     startedWithId |-> FALSE, auths |-> 0, sawExisting |-> FALSE, posts |-> 0,
     kvWrites |-> 0, deletes |-> 0, deleteStatus |-> 0]

NoHandler == [handler |-> "none"]

NoResult == [complete |-> FALSE, seq |-> 0]

\* the Run Query handler before its first statement; gets, sleeps and emits count
\* its poll requests, its pollInterval waits and its events.emit calls
NewPoll ==
    [pc |-> "submit", startTime |-> 0, posts |-> 0, gets |-> 0, sleeps |-> 0, emits |-> 0,
     emitted |-> NoResult, firstComplete |-> 0, lastFetch |-> 0, lastSleep |-> 0,
     error |-> NoMsg, elapsed |-> 0]

Init ==
    /\ kv = [k \in Keys |-> Undefined]
    /\ recipients = <<>>
    /\ nextSecret = 0
    /\ inflight = EmptyBag
    /\ last = NoHandler
    /\ clock = 0
    /\ poll = NewPoll

\* ids of the recipients that exist upstream now
Alive == {i \in DOMAIN recipients : recipients[i].alive}

\* the handler goes on to its next await (st = NewInvocation: it has just started)
Continue(st, new) ==
    /\ last = NoHandler
    /\ UNCHANGED pollVars
    /\ inflight' = IF st = NewInvocation THEN inflight (+) SetToBag({new})
                    ELSE (inflight (-) SetToBag({st})) (+) SetToBag({new})
    /\ last' = last

\* the handler returns {newStatus, customStatusDescription}; fin is its final
\* state, raised the error that ended it (NoError when none did)
Return(st, handler, fin, status, description, raised) ==
    /\ last = NoHandler
    /\ UNCHANGED pollVars
    /\ inflight' = IF st = NewInvocation THEN inflight ELSE inflight (-) SetToBag({st})
    /\ last' = [handler |-> handler, newStatus |-> status, description |-> description,
                raised |-> raised, did |-> fin,
                changed |-> (kv' # kv \/ recipients' # recipients)]

\* the host takes what the handler returned (the installation's new status, or
\* the HTTP response); no handler reads it, and the next step follows
HostTakesResult ==
    /\ last # NoHandler
    /\ last' = NoHandler
    /\ UNCHANGED <<kv, recipients, nextSecret, inflight, pollVars>>

\* the host runs at most NumProcs lifecycle invocations at a time
CanStart == BagCardinality(inflight) < NumProcs

(* ------------------------------- onSync -------------------------------- *)

\* a catch that returns failed and leaves the description out
SyncFailedNoDescription(st, fin, error) == Return(st, "onSync", fin, "failed", NoMsg, error)

\* the catch of onSync: failed, with the error's message as description
SyncFailed(st, fin, error) == Return(st, "onSync", fin, "failed", error.message, error)

\* return {newStatus: "ready"}
SyncReady(st, fin) == Return(st, "onSync", fin, "ready", NoMsg, NoError)

\* GET /1/auth; a new invocation starts here
SyncAuth ==
    /\ CanStart
    /\ UNCHANGED <<kv, recipients, nextSecret>>
    /\ \E resp \in {NetFail, Response(StatusOK, Undefined), Response(StatusServerError, Undefined)} :
         LET r == HoneycombFetch("GET", "/1/auth", 0, resp)
             begun == [NewInvocation EXCEPT !.auths = 1,
                                            !.startedWithId = ~Falsy(kv[KEY_RECIPIENT])]
         IN  IF r.ok THEN Continue(NewInvocation, [begun EXCEPT !.pc = "getId"])
                     ELSE SyncFailed(NewInvocation, begun, r)

\* the read without the early return: provisioning goes on over a stored id
SyncGetIdNoShortCircuit(st) ==
    /\ st.pc = "getId"
    /\ UNCHANGED <<kv, recipients, nextSecret>>
    /\ \E kvOk \in BOOLEAN :
         IF ~kvOk THEN SyncFailed(st, st, KvError("get", KEY_RECIPIENT))
         ELSE Continue(st, [st EXCEPT !.pc = "setSecret",
                                      !.sawExisting = ~Falsy(kv[KEY_RECIPIENT])])

\* kv.app.get("webhook_recipient_id") and the short-circuit
SyncGetId(st) ==
    /\ st.pc = "getId"
    /\ UNCHANGED <<kv, recipients, nextSecret>>
    /\ \E kvOk \in BOOLEAN :
         IF ~kvOk THEN SyncFailed(st, st, KvError("get", KEY_RECIPIENT))
         ELSE IF ~Falsy(kv[KEY_RECIPIENT])
         THEN SyncReady(st, [st EXCEPT !.sawExisting = TRUE])
         ELSE Continue(st, [st EXCEPT !.pc = "setSecret"])

\* an onSync that keeps a secret it finds stored instead of generating one
SyncSetSecretKeepsStored(st) ==
    /\ st.pc = "setSecret"
    /\ nextSecret < MaxSecrets
    /\ UNCHANGED recipients
    /\ IF ~Falsy(kv[KEY_SECRET])
       THEN /\ UNCHANGED <<kv, nextSecret>>
            /\ Continue(st, [st EXCEPT !.pc = "post", !.webhookSecret = kv[KEY_SECRET]])
       ELSE /\ nextSecret' = nextSecret + 1
            /\ kv' = [kv EXCEPT ![KEY_SECRET] = nextSecret']
            /\ Continue(st, [st EXCEPT !.pc = "post",
                                !.webhookSecret = nextSecret', !.kvWrites = @ + 1])

\* generateWebhookSecret() and kv.app.set of webhook_secret
SyncSetSecret(st) ==
    /\ st.pc = "setSecret"
    /\ nextSecret < MaxSecrets
    /\ nextSecret' = nextSecret + 1
    /\ UNCHANGED recipients
    /\ \E kvOk \in BOOLEAN :
         IF kvOk
         THEN /\ kv' = [kv EXCEPT ![KEY_SECRET] = nextSecret']
              /\ Continue(st, [st EXCEPT !.pc = "post",
                                  !.webhookSecret = nextSecret', !.kvWrites = @ + 1])
         ELSE /\ kv' = kv
              /\ SyncFailed(st, st, KvError("set", KEY_SECRET))

\* POST /1/recipients with the secret in webhook_url and webhook_secret
SyncPost(st) ==
    /\ st.pc = "post"
    /\ UNCHANGED <<kv, nextSecret>>
    /\ \/ /\ LET id == Len(recipients) + 1
                 r == HoneycombFetch("POST", "/1/recipients", 0, Response(StatusOK, id))
             IN  /\ recipients' = Append(recipients,
                        [secret |-> st.webhookSecret, alive |-> TRUE])
                 /\ Continue(st, [st EXCEPT !.pc = "setId",
                                     !.recipientId = r.value, !.posts = @ + 1])
       \/ /\ UNCHANGED recipients
          /\ \E resp \in {NetFail, Response(StatusServerError, Undefined)} :
                LET r == HoneycombFetch("POST", "/1/recipients", 0, resp)
                IN  SyncFailed(st, [st EXCEPT !.posts = @ + 1], r)

\* kv.app.set of webhook_recipient_id
SyncSetId(st) ==
    /\ st.pc = "setId"
    /\ UNCHANGED <<recipients, nextSecret>>
    /\ \E kvOk \in BOOLEAN :
         IF kvOk
         THEN /\ kv' = [kv EXCEPT ![KEY_RECIPIENT] = st.recipientId]
              /\ SyncReady(st, [st EXCEPT !.kvWrites = @ + 1])
         ELSE /\ kv' = kv
              /\ SyncFailed(st, st, KvError("set", KEY_RECIPIENT))

OnSync(st) ==
    SyncGetId(st) \/ SyncSetSecret(st) \/ SyncPost(st) \/ SyncSetId(st)

(* ------------------------------- onDrain ------------------------------- *)

\* the outer catch of onDrain
DrainFailed(st, fin, error) ==
    Return(st, "onDrain", fin, "draining_failed", error.message, error)

\* return {newStatus: "drained"}
Drained(st, fin) == Return(st, "onDrain", fin, "drained", NoMsg, NoError)

\* a catch that swallows nothing
NeverAlreadyGone(r) == FALSE

\* a catch that swallows every HoneycombApiError, whatever its status
AnyApiErrorAlreadyGone(r) == r.apiError

\* the catch around the DELETE: a HoneycombApiError with status 404 is swallowed
IsAlreadyGone(r) == r.apiError /\ r.statusCode = StatusNotFound

\* an onDrain that goes on to the DELETE whatever the read returned
DrainGetIdNoSkip ==
    /\ CanStart
    /\ UNCHANGED <<kv, recipients, nextSecret>>
    /\ \E kvOk \in BOOLEAN :
         IF ~kvOk THEN DrainFailed(NewInvocation, NewInvocation, KvError("get", KEY_RECIPIENT))
         ELSE Continue(NewInvocation, [NewInvocation EXCEPT !.pc = "delete",
                                                            !.recipientId = kv[KEY_RECIPIENT]])

\* kv.app.get("webhook_recipient_id"); a new invocation starts here
DrainGetId ==
    /\ CanStart
    /\ UNCHANGED <<kv, recipients, nextSecret>>
    /\ \E kvOk \in BOOLEAN :
         IF ~kvOk THEN DrainFailed(NewInvocation, NewInvocation, KvError("get", KEY_RECIPIENT))
         ELSE IF Falsy(kv[KEY_RECIPIENT]) THEN Drained(NewInvocation, NewInvocation)
         ELSE Continue(NewInvocation, [NewInvocation EXCEPT !.pc = "delete", !.sawExisting = TRUE,
                                                            !.recipientId = kv[KEY_RECIPIENT]])

\* what the upstream service can answer to DELETE /1/recipients/{id}
DeleteResponses(id) ==
    IF id \in Alive
    THEN {Response(StatusOK, Undefined), Response(StatusServerError, Undefined), NetFail}
    ELSE {Response(StatusNotFound, Undefined), Response(StatusServerError, Undefined), NetFail}

\* DELETE /1/recipients/{id} and its catch
DrainDelete(st) ==
    /\ st.pc = "delete"
    /\ UNCHANGED <<kv, nextSecret>>
    /\ \E resp \in DeleteResponses(st.recipientId) :
         LET id == st.recipientId
             r == HoneycombFetch("DELETE", "/1/recipients/", id, resp)
             fin == [st EXCEPT !.deletes = @ + 1, !.deleteStatus = resp.status]
         IN  /\ recipients' = IF ResponseOk(resp) /\ resp.received
                              THEN [recipients EXCEPT ![id].alive = FALSE]
                              ELSE recipients
             /\ IF r.ok THEN Continue(st, [fin EXCEPT !.pc = "delId"])
                ELSE IF IsAlreadyGone(r)
                THEN Continue(st, [fin EXCEPT !.pc = "delId"])
                ELSE DrainFailed(st, fin, r)

\* kv.app.delete(["webhook_recipient_id"])
DrainDelId(st) ==
    /\ st.pc = "delId"
    /\ UNCHANGED <<recipients, nextSecret>>
    /\ \E kvOk \in BOOLEAN :
         IF kvOk
         THEN /\ kv' = [kv EXCEPT ![KEY_RECIPIENT] = Undefined]
              /\ Continue(st, [st EXCEPT !.pc = "delSecret", !.kvWrites = @ + 1])
         ELSE /\ kv' = kv
              /\ DrainFailed(st, st, KvError("delete", KEY_RECIPIENT))

\* kv.app.delete(["webhook_secret"]) and the return after the try
DrainDelSecret(st) ==
    /\ st.pc = "delSecret"
    /\ UNCHANGED <<recipients, nextSecret>>
    /\ \E kvOk \in BOOLEAN :
         IF kvOk
         THEN /\ kv' = [kv EXCEPT ![KEY_SECRET] = Undefined]
              /\ Drained(st, [st EXCEPT !.kvWrites = @ + 1])
         ELSE /\ kv' = kv
              /\ DrainFailed(st, st, KvError("delete", KEY_SECRET))

OnDrain(st) ==
    DrainDelete(st) \/ DrainDelId(st) \/ DrainDelSecret(st)

(* --------------------------- http.onRequest ---------------------------- *)

\* subscribeToTriggerV1 blocks a blocks.list call can return at most
NumBlocks == 2

\* trigger ids; "" stands for an id that is missing (or empty), falsy in the code
TriggerIds == {"t1", "t2"}
NoTriggerId == ""

\* the config of a subscribeToTriggerV1 block: its schema has the one optional
\* field triggerId
BlockConfig(tid) == IF tid = NoTriggerId THEN [k \in {} |-> NoTriggerId]
                                         ELSE [k \in {"triggerId"} |-> tid]

\* property access: a missing property reads as undefined
Get(obj, key) == IF key \in DOMAIN obj THEN obj[key] ELSE NoTriggerId

\* what blocks.list({typeIds: ["subscribeToTriggerV1"]}) can return
EntityLists ==
    {[i \in 1..n |-> [id |-> i, config |-> BlockConfig(c[i])]] :
        n \in 0..NumBlocks, c \in [1..NumBlocks -> TriggerIds \cup {NoTriggerId}]}

\* request bodies: none, or a trigger payload with its id
NoBody == [present |-> FALSE, id |-> NoTriggerId]
Payload(tid) == [present |-> TRUE, id |-> tid]
Bodies == {NoBody} \cup {Payload(t) : t \in TriggerIds \cup {NoTriggerId}}

\* a check that only compares: two missing secrets are equal
SecretRejectedUnlessEqual(requestedSecret, storedSecret) ==
    requestedSecret # storedSecret

\* the secret check: TRUE when the request is turned away
SecretRejected(requestedSecret, storedSecret) ==
    \/ Falsy(requestedSecret)
    \/ Falsy(storedSecret)
    \/ requestedSecret # storedSecret

\* the filter over entityList.blocks
EntityMatches(entity, payload) ==
    IF Get(entity.config, "trigger_id") = NoTriggerId
    THEN TRUE
    ELSE payload.id # NoTriggerId /\ Get(entity.config, "trigger_id") = payload.id

\* filter, then map to the ids, keeping the order
RECURSIVE MatchingEntityIds(_, _)
MatchingEntityIds(list, payload) ==
    IF list = <<>> THEN <<>>
    ELSE LET rest == MatchingEntityIds(Tail(list), payload)
         IN  IF EntityMatches(Head(list), payload) THEN <<Head(list).id>> \o rest ELSE rest

NoMessage == [sent |-> FALSE, blockIds |-> <<>>, type |-> "", data |-> NoBody]

\* what the handler did with one request
Exchange(req, stored, body, list, status, listCalls, sendCalls, msg, matched) ==
    [handler |-> "http", requestedSecret |-> req, storedSecret |-> stored, body |-> body,
     entityList |-> list, statusCode |-> status,
     listCalls |-> listCalls, sendCalls |-> sendCalls, message |-> msg, matched |-> matched]

\* a handler that looks at the body before the secret
HandleRequestBodyFirst(requestedSecret, storedSecret, body, entityList, listOk, sendOk) ==
    IF ~body.present
    THEN Exchange(requestedSecret, storedSecret, body, <<>>, 400, 0, 0, NoMessage, 0)
    ELSE IF SecretRejected(requestedSecret, storedSecret)
    THEN Exchange(requestedSecret, storedSecret, body, <<>>, 401, 0, 0, NoMessage, 0)
    ELSE Exchange(requestedSecret, storedSecret, body, entityList, 200, 1, 0, NoMessage, 0)

\* the handler's path from the secret check to its one http.respond
HandleRequest(requestedSecret, storedSecret, body, entityList, listOk, sendOk) ==
    LET matchingEntityIds == MatchingEntityIds(entityList, body)
        message == [sent |-> TRUE, blockIds |-> matchingEntityIds,
                    type |-> "trigger_fired", data |-> body]
    IN  IF SecretRejected(requestedSecret, storedSecret)
        THEN Exchange(requestedSecret, storedSecret, body, <<>>, 401, 0, 0, NoMessage, 0)
        ELSE IF ~body.present
        THEN Exchange(requestedSecret, storedSecret, body, <<>>, 400, 0, 0, NoMessage, 0)
        ELSE IF ~listOk
        THEN Exchange(requestedSecret, storedSecret, body, <<>>, 500, 1, 0, NoMessage, 0)
        ELSE IF Len(matchingEntityIds) > 0 /\ ~sendOk
        THEN Exchange(requestedSecret, storedSecret, body, entityList, 500, 1, 1,
                      NoMessage, 0)
        ELSE IF Len(matchingEntityIds) > 0
        THEN Exchange(requestedSecret, storedSecret, body, entityList, 200, 1, 1,
                      message, Len(matchingEntityIds))
        ELSE Exchange(requestedSecret, storedSecret, body, entityList, 200, 1, 0,
                      NoMessage, 0)

\* the whole handler for one inbound request whose read of the stored secret
\* returns; listOk and sendOk say whether blocks.list and messaging.sendToBlocks
\* succeed when they are called
HttpOnRequest(requestedSecret, body, entityList, listOk, sendOk) ==
    /\ last = NoHandler
    /\ UNCHANGED <<kv, recipients, nextSecret, inflight, pollVars>>
    /\ last' = HandleRequest(requestedSecret, kv[KEY_SECRET], body, entityList, listOk, sendOk)
                  @@ [listOk |-> listOk, sendOk |-> sendOk]

\* secrets a caller can present: none, the empty string, any generated one
RequestSecrets == {Undefined, EmptyString} \cup (1..MaxSecrets)

(* ------------------------- runQueryV1.onEvent -------------------------- *)

MAX_POLL_DURATION_MS == 15000
POLL_INTERVAL_MS == 500

\* the longest a request takes to come back
MaxLatency == 700
\* the longest a timer fires after its delay
MaxJitter == 100

FetchLatencies == {0, MaxLatency}
SleepDurations == {POLL_INTERVAL_MS, POLL_INTERVAL_MS + MaxJitter}

\* a loop that still runs at exactly maxDuration
WithinPollDurationInclusive(now, startTime) == now - startTime <= MAX_POLL_DURATION_MS

\* the condition of the while loop
WithinPollDuration(now, startTime) == now - startTime < MAX_POLL_DURATION_MS

\* a submission whose failure is noted and then polled all the same
RunSubmitIgnoringFailure ==
    /\ poll.pc = "submit"
    /\ UNCHANGED lifecycleVars
    /\ \E lat \in FetchLatencies,
          resp \in {NetFail, Response(StatusServerError, Undefined), Response(StatusOK, 1)} :
         LET r == HoneycombFetch("POST", "/1/query_results/", 0, resp)
         IN  /\ clock' = clock + lat
             /\ poll' = [poll EXCEPT !.pc = "loop", !.posts = @ + 1, !.startTime = clock',
                                     !.error = r.message]

\* Step 1: POST /1/query_results/{datasetSlug}, then the start timestamp
RunSubmit ==
    /\ poll.pc = "submit"
    /\ UNCHANGED lifecycleVars
    /\ \E lat \in FetchLatencies,
          resp \in {NetFail, Response(StatusServerError, Undefined), Response(StatusOK, 1)} :
         LET r == HoneycombFetch("POST", "/1/query_results/", 0, resp)
         IN  /\ clock' = clock + lat
             /\ poll' = IF r.ok
                        THEN [poll EXCEPT !.pc = "loop", !.posts = @ + 1, !.startTime = clock']
                        ELSE [poll EXCEPT !.pc = "failed", !.posts = @ + 1, !.error = r.message]

\* an emit without the return after it: the loop goes on to its wait
AfterPollNoReturn(st, pollResult) ==
    IF pollResult.complete
    THEN [st EXCEPT !.pc = "sleep", !.emits = @ + 1, !.emitted = pollResult]
    ELSE [st EXCEPT !.pc = "sleep"]

\* a handler that emits whatever the poll answered
AfterPollEmitsAny(st, pollResult) ==
    [st EXCEPT !.pc = "emitted", !.emits = @ + 1, !.emitted = pollResult]

\* what the handler does with the answer to a poll: emit and return, or wait
AfterPoll(st, pollResult) ==
    IF pollResult.complete
    THEN [st EXCEPT !.pc = "emitted", !.emits = @ + 1, !.emitted = pollResult]
    ELSE [st EXCEPT !.pc = "sleep"]

\* the loop condition and, inside the loop, GET /1/query_results/{datasetSlug}/{id}
PollFetch ==
    /\ poll.pc = "loop"
    /\ WithinPollDuration(clock, poll.startTime)
    /\ UNCHANGED lifecycleVars
    /\ \E lat \in FetchLatencies, complete \in BOOLEAN, fails \in {"no", "status", "transport"} :
         LET pollResult == [complete |-> complete, seq |-> poll.gets + 1]
             resp == IF fails = "transport" THEN NetFail
                     ELSE IF fails = "status" THEN Response(StatusServerError, Undefined)
                     ELSE Response(StatusOK, pollResult)
             r == HoneycombFetch("GET", "/1/query_results/", 0, resp)
             st == [poll EXCEPT !.gets = @ + 1, !.lastFetch = lat,
                                !.firstComplete = IF @ = 0 /\ r.ok /\ complete
                                                  THEN poll.gets + 1 ELSE @]
         IN  /\ clock' = clock + lat
             /\ poll' = IF r.ok THEN AfterPoll(st, r.value)
                        ELSE [st EXCEPT !.pc = "failed", !.error = r.message]

\* await new Promise((resolve) => setTimeout(resolve, POLL_INTERVAL_MS))
PollSleep ==
    /\ poll.pc = "sleep"
    /\ UNCHANGED lifecycleVars
    /\ \E d \in SleepDurations :
         /\ clock' = clock + d
         /\ poll' = [poll EXCEPT !.pc = "loop", !.sleeps = @ + 1, !.lastSleep = d]

\* the loop condition fails: the throw after the loop
PollTimeout ==
    /\ poll.pc = "loop"
    /\ ~WithinPollDuration(clock, poll.startTime)
    /\ UNCHANGED lifecycleVars
    /\ clock' = clock
    /\ poll' = [poll EXCEPT !.pc = "timeout", !.elapsed = clock - poll.startTime,
                            !.error = Msg("polling timed out", "", "", 0, 0)]

(* --------------------------- specifications ---------------------------- *)

\* a callback of the upstream service: a trigger payload, one subscriber block
Callback ==
    \E s \in RequestSecrets :
        HttpOnRequest(s, Payload("t1"), <<[id |-> 1, config |-> BlockConfig("t1")]>>,
                      TRUE, TRUE)

Next ==
    \/ SyncAuth
    \/ DrainGetId
    \/ \E st \in BagToSet(inflight) : OnSync(st) \/ OnDrain(st)
    \/ Callback
    \/ HostTakesResult

\* the installation lifecycle with concurrent invocations, and callbacks
Spec == Init /\ [][Next]_vars

\* onSync invocations only, overlapping and retried
NextSync ==
    \/ SyncAuth
    \/ \E st \in BagToSet(inflight) : OnSync(st)
    \/ HostTakesResult

SpecSync == Init /\ [][NextSync]_vars

\* the installation lifecycle with one invocation at a time: a handler is
\* started only when none is running
NextSeq ==
    \/ inflight = EmptyBag /\ SyncAuth
    \/ inflight = EmptyBag /\ DrainGetId
    \/ \E st \in BagToSet(inflight) : OnSync(st) \/ OnDrain(st)
    \/ Callback
    \/ HostTakesResult

SpecSeq == Init /\ [][NextSeq]_vars

\* any request against any stored secret
InitWebhook ==
    /\ kv \in [Keys -> {Undefined} \cup (1..MaxSecrets)]
    /\ recipients = <<>>
    /\ nextSecret = MaxSecrets
    /\ inflight = EmptyBag
    /\ last = NoHandler
    /\ clock = 0
    /\ poll = NewPoll

AnyRequest ==
    \E s \in RequestSecrets, body \in Bodies, list \in EntityLists,
       listOk, sendOk \in BOOLEAN :
        HttpOnRequest(s, body, list, listOk, sendOk)

NextWebhook == AnyRequest \/ HostTakesResult

SpecWebhook == InitWebhook /\ [][NextWebhook]_vars

\* one Run Query invocation, any latencies and any poll answers
NextPoll == RunSubmit \/ PollFetch \/ PollSleep \/ PollTimeout

SpecPoll == Init /\ [][NextPoll]_vars

\* one call of honeycombFetch with any method, endpoint and response
Methods == {"GET", "POST", "PUT", "DELETE"}
Endpoints == {"/1/auth", "/1/recipients", "/1/query_results/"}
BodyTexts == 1..MaxSecrets
FetchResponses ==
    {NetFail}
    \cup {Response(st, b) : st \in {StatusOK, StatusNotFound, StatusServerError},
                            b \in {Undefined} \cup BodyTexts}
    \cup {Garbled(st, b) : st \in {StatusOK, StatusNotFound, StatusServerError},
                           b \in BodyTexts}

FetchCall ==
    /\ last = NoHandler
    /\ UNCHANGED <<kv, recipients, nextSecret, inflight, pollVars>>
    /\ \E method \in Methods, endpoint \in Endpoints, resp \in FetchResponses :
         last' = [handler |-> "honeycombFetch", method |-> method, endpoint |-> endpoint,
                  response |-> resp, result |-> HoneycombFetch(method, endpoint, 0, resp)]

NextFetch == FetchCall \/ HostTakesResult

SpecFetch == Init /\ [][NextFetch]_vars

\* the same invocation when every request returns and every timer fires: the
\* handler always takes its next step
SpecPollFair == Init /\ [][NextPoll]_vars /\ WF_vars(NextPoll)

(* ------------------------------ properties ----------------------------- *)

Invocations == BagToSet(inflight)
IsSuccessStatus(status) == status >= 200 /\ status <= 299

\* C1: the webhook handler fails closed.  Whenever the presented secret is
\* missing, the stored webhook_secret is missing, or the two differ, the answer
\* is 401 and neither blocks.list nor messaging.sendToBlocks is called; only a
\* request whose secret is present and equal to the stored one gets past.
C1_WebhookFailsClosed ==
    last.handler = "http" =>
        LET presented == last.requestedSecret
            stored == kv[KEY_SECRET]
            bothPresentAndEqual ==
                presented \notin {Undefined, EmptyString} /\ stored \notin {Undefined, EmptyString}
                /\ presented = stored
        IN  /\ ~bothPresentAndEqual =>
                last.statusCode = 401 /\ last.listCalls = 0 /\ last.sendCalls = 0
            /\ (last.statusCode # 401 \/ last.listCalls > 0 \/ last.sendCalls > 0) =>
                bothPresentAndEqual

\* C1 witness: a stored secret, another secret presented with a body: 401, no call
C1_Witness ==
    /\ last.handler = "http"
    /\ kv[KEY_SECRET] = 1 /\ last.requestedSecret = 2 /\ last.body.present
    /\ last.statusCode = 401 /\ last.listCalls = 0 /\ last.sendCalls = 0

\* the ids a delivery went to
Selected == {last.message.blockIds[i] : i \in DOMAIN last.message.blockIds}

\* C2: trigger matching.  For an authenticated payload, a registered block is
\* selected for delivery if and only if it has no triggerId configured or the
\* payload's id equals its configured triggerId.
C2_TriggerMatching ==
    (last.handler = "http" /\ last.statusCode = 200) =>
        \A i \in DOMAIN last.entityList :
            LET entity == last.entityList[i]
                configured == Get(entity.config, "triggerId")
            IN  (entity.id \in Selected) <=>
                    (configured = NoTriggerId \/ last.body.id = configured)

\* C3: idempotent install.  An onSync that finds webhook_recipient_id stored
\* issues no POST /1/recipients, writes no key and returns ready; no invocation
\* that found the id goes on to provision.
C3_IdempotentInstall ==
    /\ (last.handler = "onSync" /\ last.did.sawExisting) =>
            /\ last.did.posts = 0
            /\ last.did.kvWrites = 0
            /\ ~last.changed
            /\ last.newStatus = "ready"
    /\ \A st \in Invocations : st.pc \in {"setSecret", "post", "setId"} => ~st.sawExisting

\* C3 witness: an onSync returned ready on a stored id, which is still stored
C3_Witness ==
    /\ last.handler = "onSync" /\ last.did.sawExisting /\ last.newStatus = "ready"
    /\ kv[KEY_RECIPIENT] # Undefined

\* C4: a 404 answer to the DELETE of onDrain is swallowed.  The handler goes on
\* to delete the stored entries and returns drained; it returns draining_failed
\* only when one of those key-value deletes itself fails.
C4_NotFoundIsDrained ==
    /\ (last.handler = "onDrain" /\ last.did.deleteStatus = StatusNotFound) =>
            /\ last.raised = NoError => (last.newStatus = "drained" /\ last.did.kvWrites = 2)
            /\ last.raised # NoError =>
                   last.raised \in {KvError("delete", KEY_RECIPIENT), KvError("delete", KEY_SECRET)}
    /\ \A st \in Invocations : st.deleteStatus = StatusNotFound => st.pc \in {"delId", "delSecret"}

\* C4 witness: an onDrain whose DELETE was answered 404 returned drained
C4_Witness ==
    /\ last.handler = "onDrain" /\ last.did.deleteStatus = StatusNotFound
    /\ last.newStatus = "drained"

\* the DELETE of an invocation failed with something other than a 404
DeleteFailedOtherwise(did) ==
    did.deletes = 1 /\ ~IsSuccessStatus(did.deleteStatus) /\ did.deleteStatus # StatusNotFound

\* C5: when the DELETE of onDrain fails with anything but a 404 (another status,
\* or no response), onDrain returns draining_failed and has written or deleted
\* no key: both stored entries are left as they were.
C5_OtherDeleteErrorKeepsState ==
    /\ (last.handler = "onDrain" /\ DeleteFailedOtherwise(last.did)) =>
            /\ last.newStatus = "draining_failed"
            /\ last.did.kvWrites = 0
            /\ ~last.changed
            /\ last.description = last.raised.message
    /\ \A st \in Invocations : ~DeleteFailedOtherwise(st)

\* C5 witness: a DELETE answered 500, draining_failed, the id and a secret still stored
C5_Witness ==
    /\ last.handler = "onDrain" /\ last.did.deleteStatus = StatusServerError
    /\ last.newStatus = "draining_failed"
    /\ kv[KEY_RECIPIENT] = last.did.recipientId /\ kv[KEY_SECRET] # Undefined

C7_ReturnsOnFirstComplete ==
    /\ poll.firstComplete # 0 =>
            /\ poll.pc = "emitted"
            /\ poll.gets = poll.firstComplete
            /\ poll.sleeps = poll.gets - 1
            /\ poll.emits = 1
            /\ poll.emitted = [complete |-> TRUE, seq |-> poll.firstComplete]
    /\ poll.pc = "emitted" => poll.firstComplete # 0
    /\ poll.firstComplete = 0 => poll.emits = 0

\* C7 witness: answers [false, false, true]: the third is emitted after two waits
C7_Witness ==
    /\ poll.pc = "emitted" /\ poll.gets = 3 /\ poll.sleeps = 2
    /\ poll.emitted = [complete |-> TRUE, seq |-> 3]

\* C8: at most one webhook recipient created by the installation exists upstream
\* at any time.
C8_AtMostOneRecipient == Cardinality(Alive) <= 1

\* C9: secret consistency.  Whenever webhook_recipient_id is stored, the stored
\* webhook_secret is the secret sent upstream when that recipient was created, so
\* a callback from that recipient passes the webhook check.
C9_SecretConsistency ==
    kv[KEY_RECIPIENT] # Undefined =>
        /\ kv[KEY_SECRET] = recipients[kv[KEY_RECIPIENT]].secret
        /\ ~SecretRejected(recipients[kv[KEY_RECIPIENT]].secret, kv[KEY_SECRET])

\* C10: install failure handling.  An onSync returns failed exactly when an error
\* was raised in it, with that error's message as the description and with
\* nothing undone by the failing step; every onSync starts with the auth check;
\* an onSync started after webhook_recipient_id was persisted creates no recipient.
C10_InstallFailure ==
    /\ last.handler = "onSync" =>
            /\ (last.raised # NoError) <=> (last.newStatus = "failed")
            /\ last.raised # NoError => (last.description = last.raised.message /\ ~last.changed)
            /\ last.raised = NoError => last.newStatus = "ready"
            /\ last.did.auths = 1
            /\ last.did.startedWithId => last.did.posts = 0
    /\ \A st \in Invocations :
            /\ st.auths = 1
            /\ st.startedWithId => st.pc = "getId"

\* C10 witness: the POST failed after the secret was stored: failed, the
\* description is the error's message, the secret is still stored
C10_Witness ==
    /\ last.handler = "onSync" /\ last.newStatus = "failed"
    /\ last.did.posts = 1 /\ last.did.kvWrites = 1
    /\ last.description = last.raised.message /\ last.description.kind = "api error"
    /\ kv[KEY_SECRET] = last.did.webhookSecret

\* the steps of onDrain after its read of the stored id
DrainSteps == {"delete", "delId", "delSecret"}

\* C11: an onDrain whose read finds no webhook_recipient_id returns drained at
\* once: it issues no DELETE and touches no key; a DELETE is only ever issued
\* for an id that was found in storage
C11_NoIdNoDelete ==
    /\ \A st \in Invocations : st.pc \in DrainSteps => ~Falsy(st.recipientId)
    /\ (last.handler = "onDrain" /\ last.did.deletes > 0) => ~Falsy(last.did.recipientId)
    /\ (last.handler = "onDrain" /\ last.did.pc = "start" /\ last.raised = NoError) =>
          /\ Falsy(kv[KEY_RECIPIENT])
          /\ last.newStatus = "drained"
          /\ last.did.deletes = 0
          /\ ~last.changed

\* an onDrain returned drained straight from its read, while a secret was stored
C11_Witness ==
    /\ last.handler = "onDrain"
    /\ last.newStatus = "drained"
    /\ last.did.pc = "start"
    /\ last.did.deletes = 0
    /\ Falsy(kv[KEY_RECIPIENT])
    /\ ~Falsy(kv[KEY_SECRET])

\* the secret check of a finished request passed
Authenticated == ~SecretRejected(last.requestedSecret, last.storedSecret)

\* blocks.list threw, or messaging.sendToBlocks was called and threw
ListOrDeliveryFailed == ~last.listOk \/ (last.sendCalls = 1 /\ ~last.sendOk)

\* C12: every request is answered with one of 401, 400, 200, 500: 401 iff the
\* secret check fails, 400 iff it passes and the body is missing, 500 iff it
\* passes, the body is present and listing or delivery failed, 200 iff it passes,
\* the body is present and both succeeded, so a bad secret with a missing body
\* gets 401
C12_ResponseCodes ==
    last.handler = "http" =>
        /\ last.statusCode \in {401, 400, 200, 500}
        /\ last.statusCode = 401 <=> ~Authenticated
        /\ last.statusCode = 400 <=> (Authenticated /\ ~last.body.present)
        /\ last.statusCode = 500 <=>
              (Authenticated /\ last.body.present /\ ListOrDeliveryFailed)
        /\ last.statusCode = 200 <=>
              (Authenticated /\ last.body.present /\ ~ListOrDeliveryFailed)

\* a request with a wrong secret and no body was answered 401
C12_Witness ==
    /\ last.handler = "http"
    /\ ~Falsy(last.storedSecret) /\ ~Falsy(last.requestedSecret)
    /\ last.requestedSecret # last.storedSecret
    /\ ~last.body.present
    /\ last.statusCode = 401

\* the four ways a call is said to end, for its request and response
TransportError(c) ==
    /\ ~c.result.ok /\ ~c.result.apiError
    /\ c.result.message = Msg("request failed", c.method, c.endpoint, 0, 0)

ApiError(c) ==
    /\ ~c.result.ok /\ c.result.apiError
    /\ c.result.message = Msg("api error", c.method, c.endpoint, 0, c.response.status)
    /\ c.result.statusCode = c.response.status
    /\ c.result.statusText = c.response.statusText
    /\ c.result.responseBody = c.response.body

ReturnsUndefined(c) == c.result.ok /\ c.result.value = Undefined

ReturnsParsedJson(c) ==
    c.result.ok /\ c.result.value # Undefined /\ c.result.value = c.response.body

\* the error of JSON.parse: not a transport error, not a HoneycombApiError
ParseError(c) ==
    /\ ~c.result.ok /\ ~c.result.apiError
    /\ c.result.message.kind = "syntax error"

FetchErrors(method) ==
    {HoneycombFetch(method, "/1/query_results/", 0, resp).message :
        resp \in {NetFail, Response(StatusServerError, Undefined)}}

\* C14: the submission is sent once; when it fails the handler fails at once
\* with that error, having sent no poll, waited for nothing and emitted
\* nothing; when a poll fails the handler fails at once with that error, the
\* failed poll being its last request; and only the expired deadline produces
\* the timeout error
C14_ErrorsPropagate ==
    /\ poll.posts <= 1
    /\ poll.error # NoMsg <=> poll.pc \in {"failed", "timeout"}
    /\ poll.pc = "failed" =>
          /\ poll.posts = 1 /\ poll.emits = 0
          /\ \/ /\ poll.error \in FetchErrors("POST")
                /\ poll.gets = 0 /\ poll.sleeps = 0
             \/ /\ poll.error \in FetchErrors("GET")
                /\ poll.gets >= 1 /\ poll.sleeps = poll.gets - 1
    /\ poll.error.kind = "polling timed out" <=> poll.pc = "timeout"
    /\ poll.pc = "timeout" =>
          /\ clock - poll.startTime >= MAX_POLL_DURATION_MS
          /\ poll.emits = 0 /\ poll.sleeps = poll.gets

\* the second poll failed with the upstream's status, after one wait
C14_Witness ==
    /\ poll.pc = "failed"
    /\ poll.error.kind = "api error" /\ poll.error.method = "GET"
    /\ poll.gets = 2 /\ poll.sleeps = 1 /\ poll.emits = 0

\* C15: the deadline is checked before each wait: the handler never begins its
\* pollInterval wait when the elapsed time has already reached maxDuration
C15_NoWaitPastDeadline ==
    poll.pc = "sleep" => clock - poll.startTime < MAX_POLL_DURATION_MS

\* the handler has returned or thrown
PollEnded == poll.pc \in {"emitted", "failed", "timeout"}

\* ended with exactly one emit, of a poll response with complete = true
EndedWithOneEmit ==
    poll.pc = "emitted" /\ poll.emits = 1 /\ poll.emitted.complete /\ poll.error = NoMsg

\* ended with an error and no emit
EndedWithFailure ==
    poll.pc \in {"failed", "timeout"} /\ poll.emits = 0 /\ poll.error # NoMsg

\* C16: every Run Query invocation ends, and ends either with exactly one emit
\* whose payload is a poll response with complete = true or with a failure and
\* no emit; nothing with complete = false is emitted, nothing is emitted twice
C16_TerminatesOneWay ==
    /\ <>PollEnded
    /\ [](PollEnded => (EndedWithOneEmit \/ EndedWithFailure))
    /\ [](poll.emits <= 1)
    /\ [](poll.emits = 0 <=> poll.emitted = NoResult)
    /\ [](poll.emits = 1 => (poll.emitted.complete /\ poll.pc = "emitted"))

\* an invocation ended by emitting the complete answer of its second poll, the
\* first having answered complete = false
C16_Witness ==
    /\ EndedWithOneEmit
    /\ poll.gets = 2 /\ poll.sleeps = 1
    /\ poll.emitted = [complete |-> TRUE, seq |-> 2]

\* C17: after onSync calls, successful or failed, and an onDrain that returns
\* drained, neither webhook_recipient_id nor webhook_secret is left in the
\* key-value store, so a request is answered 401 whatever secret it presents
C17_DrainedLeavesNothing ==
    (last.handler = "onDrain" /\ last.newStatus = "drained") =>
        /\ kv[KEY_RECIPIENT] = Undefined
        /\ kv[KEY_SECRET] = Undefined
        /\ \A s \in RequestSecrets :
              HandleRequest(s, kv[KEY_SECRET], Payload("t1"), <<>>, TRUE, TRUE).statusCode = 401

\* recipient i exists upstream, no stored id names it, and its secret does not
\* pass the webhook check
OrphanedAndLockedOut(i) ==
    /\ i \in Alive
    /\ kv[KEY_RECIPIENT] # i
    /\ SecretRejected(recipients[i].secret, kv[KEY_SECRET])

\* C18: with one invocation at a time, an onSync whose POST succeeds and whose
\* write of webhook_recipient_id fails ends failed with the recipient upstream
\* and no id stored; the next onSync stores a fresh secret and, when its POST
\* succeeds, creates another recipient, and from then on every recipient left
\* by an earlier onSync has no stored id and a secret that is rejected
C18_OrphanOnPersistFailure ==
    /\ (last.handler = "onSync" /\ last.raised = KvError("set", KEY_RECIPIENT)) =>
          /\ last.newStatus = "failed"
          /\ last.did.posts = 1
          /\ last.did.recipientId \in Alive
          /\ Falsy(kv[KEY_RECIPIENT])
    /\ \A st \in Invocations : st.pc \in {"post", "setId"} =>
          /\ kv[KEY_SECRET] = st.webhookSecret
          /\ \A i \in DOMAIN recipients : i # st.recipientId =>
                recipients[i].secret # st.webhookSecret
          /\ \A i \in Alive \ {st.recipientId} : OrphanedAndLockedOut(i)
          /\ st.pc = "setId" => (st.recipientId = Len(recipients) /\ st.recipientId \in Alive)
    /\ (last.handler = "onSync" /\ last.newStatus = "ready" /\ ~last.did.sawExisting) =>
          \A i \in Alive \ {last.did.recipientId} : OrphanedAndLockedOut(i)

\* the second onSync returned ready with its own recipient and secret stored,
\* the first recipient still upstream with the overwritten secret
C18_Witness ==
    /\ last.handler = "onSync" /\ last.newStatus = "ready"
    /\ Alive = {1, 2}
    /\ kv[KEY_RECIPIENT] = 2
    /\ kv[KEY_SECRET] = recipients[2].secret
    /\ OrphanedAndLockedOut(1)

\* the blocks of the listing that match the payload: no triggerId configured, or
\* the payload's id equal to it
MatchingBlocks ==
    {last.entityList[i].id : i \in
        {j \in DOMAIN last.entityList :
            LET configured == Get(last.entityList[j].config, "triggerId")
            IN  configured = NoTriggerId \/ last.body.id = configured}}

\* C19: for an authenticated request with a body that is answered 200, every
\* matching block is among the blockIds of one sendToBlocks call of type
\* trigger_fired carrying the payload as received; when no block matches no
\* message is sent; and matched_blocks is the number of blocks selected
C19_FanOut ==
    (last.handler = "http" /\ Authenticated /\ last.body.present /\ last.statusCode = 200) =>
        /\ last.sendCalls <= 1
        /\ MatchingBlocks # {} =>
              /\ last.sendCalls = 1 /\ last.message.sent
              /\ last.message.type = "trigger_fired"
              /\ last.message.data = last.body
              /\ MatchingBlocks \subseteq Selected
        /\ MatchingBlocks = {} => (last.sendCalls = 0 /\ ~last.message.sent)
        /\ last.matched = Len(last.message.blockIds)
        /\ last.matched = Cardinality(Selected)

====
